---- MODULE Spec2Model ----
(***************************************************************************)
(* The Home page component of src/src/app/theme.ts (the page source starts *)
(* at line 60 of that file): CSV ingestion (handleFileUpload and the       *)
(* Papa.parse complete callback), clearData, has3DColumns, and the         *)
(* liveness probe of the visualization server (checkTrameServer, started   *)
(* by the mount effect, its 5000 ms interval and the refresh button).      *)
(*                                                                         *)
(* A JavaScript string is a sequence of one-character strings, so that     *)
(* trim, endsWith and toLowerCase are computed character by character.     *)
(* A nullable value is a sequence of length 0 (null) or 1.                 *)
(***************************************************************************)
EXTENDS Integers, Sequences, FiniteSets

VARIABLES
    csvData,             \* useState<CSVData | null>: None or Some([headers, rows])
    loading,             \* useState(false)
    error,               \* useState<string | null>: None or Some(message)
    fileName,            \* useState<string>("")
    trameServerRunning,  \* useState(false)
    parses,              \* Papa.parse calls whose complete callback has not run
    probes,              \* fetch calls of checkTrameServer that have not settled
    phase,               \* "rendered" | "mounted" | "unmounted"
    timer,               \* the setInterval handle is registered
    now,                 \* time since the component was rendered
    nextTick,            \* time at which the interval fires next
    uploads,             \* history: Papa.parse calls started so far
    issued,              \* history: probe requests issued by the effect and its timer
    source               \* history: file name and parser rows the Table came from

vars == <<csvData, loading, error, fileName, trameServerRunning, parses, probes,
          phase, timer, now, nextTick, uploads, issued, source>>

ingestVars == <<csvData, loading, error, fileName, parses, uploads, source>>
probeVars == <<trameServerRunning, probes, issued>>
viewVars == <<phase, timer, now, nextTick>>

\* ------------------------------------------------------------ bounds
MaxUploads == 2
MaxProbes == 2
MaxTicks == 2
MaxRows == 3

\* ------------------------------------------------------------ values
None == <<>>
Some(x) == <<x>>

\* setInterval(checkTrameServer, 5000)
Interval == 5000

\* ------------------------------------------------------------ strings
WhiteSpace == {" ", "\t", "\n", "\r"}

UpperCase == <<"A", "B", "C", "D", "E", "F", "G", "H", "I", "J", "K", "L", "M",
               "N", "O", "P", "Q", "R", "S", "T", "U", "V", "W", "X", "Y", "Z">>
LowerCase == <<"a", "b", "c", "d", "e", "f", "g", "h", "i", "j", "k", "l", "m",
               "n", "o", "p", "q", "r", "s", "t", "u", "v", "w", "x", "y", "z">>

\* String.prototype.toLowerCase on the ASCII range
toLowerCase(s) ==
    [i \in 1..Len(s) |->
        IF \E k \in 1..26 : UpperCase[k] = s[i]
        THEN LowerCase[CHOOSE k \in 1..26 : UpperCase[k] = s[i]]
        ELSE s[i]]

RECURSIVE trimStart(_)
trimStart(s) ==
    IF s # <<>> /\ Head(s) \in WhiteSpace THEN trimStart(Tail(s)) ELSE s

RECURSIVE trimEnd(_)
trimEnd(s) ==
    IF s # <<>> /\ s[Len(s)] \in WhiteSpace
    THEN trimEnd(SubSeq(s, 1, Len(s) - 1))
    ELSE s

\* String.prototype.trim
trim(s) == trimEnd(trimStart(s))

\* String.prototype.endsWith
endsWithIgnoreCase(s, suffix) ==
    /\ Len(s) >= Len(suffix)
    /\ toLowerCase(SubSeq(s, Len(s) - Len(suffix) + 1, Len(s))) = toLowerCase(suffix)
endsWith(s, suffix) ==
    /\ Len(s) >= Len(suffix)
    /\ SubSeq(s, Len(s) - Len(suffix) + 1, Len(s)) = suffix

\* ------------------------------------------------------------ inputs
\* A File of the input element: its name and its declared MIME type.
DotCsv == <<".", "c", "s", "v">>
TextCsv == "text/csv"

FileA == [name |-> <<"a", ".", "c", "s", "v">>, type |-> "text/csv"]
FileB == [name |-> <<"a", ".", "c", "s", "v">>, type |-> "application/vnd.ms-excel"]
FileU == [name |-> <<"u", ".", "C", "S", "V">>, type |-> "text/csv"]
FileX == [name |-> <<"x", ".", "C", "S", "V">>, type |-> ""]
FileT == [name |-> <<"t", ".", "t", "x", "t">>, type |-> "text/plain"]
FileS == [name |-> <<"c", "s", "v">>, type |-> ""]
Files == {FileA, FileB, FileU, FileX, FileT, FileS}

\* event.target.files: an empty FileList or one file
FileLists == {<<>>} \cup {<<f>> : f \in Files}

\* Rows a parser result is made of (string[]).
RowPool == { <<>>,
             << <<" ">>, <<>> >>,
             << <<"a">>, <<"b">> >>,
             << <<>>, <<" ", "1", "\t">> >>,
             << <<"\t">>, <<" ", " ">>, <<"\n">> >> }

\* results of Papa.parse: errors is results.errors.length, data is results.data
ResultsOf(errs, rowSets) ==
    [errors : errs, data : UNION {[1..n -> rowSets] : n \in 0..MaxRows}]

AllResults == ResultsOf(0..1, RowPool)

RErr == [errors |-> 1, data |-> << << <<"a">>, <<"b">> >>, << <<"1">> >> >>]
RErrEmpty == [errors |-> 2, data |-> <<>>]
REmpty == [errors |-> 0, data |-> <<>>]
ROk1 == [errors |-> 0,
         data |-> << << <<"a">>, <<"b">> >>,
                     << <<"1">>, <<"2">> >>,
                     << <<>>, <<>>, <<>> >> >>]
ROk2 == [errors |-> 0,
         data |-> << << <<" ">>, <<"x">> >>,
                     << <<" ">> >>,
                     << <<"3">> >>,
                     << <<"\t">>, <<>> >>,
                     << <<>>, <<"4", " ">> >> >>]
SomeResults == {RErr, RErrEmpty, REmpty, ROk1, ROk2}

\* what a fetch settles with: a Response with a status, or a rejection
Responses == {[kind |-> "resolved", status |-> st] : st \in {200, 204, 304, 404, 500}}
                 \cup {[kind |-> "rejected", status |-> 0]}

\* ------------------------------------------------------------ ingestion
\* line 113: the file is refused
rejectedIgnoreCase(file) ==
    file.type # TextCsv /\ ~endsWithIgnoreCase(file.name, DotCsv)
rejected(file) ==
    file.type # TextCsv /\ ~endsWith(file.name, DotCsv)

\* line 140: row.some((cell) => cell.trim() !== "")
keepRowUntrimmed(row) == \E i \in 1..Len(row) : row[i] # <<>>
keepRow(row) == \E i \in 1..Len(row) : trim(row[i]) # <<>>

\* lines 138-140: data.slice(1).filter(...)
RECURSIVE filterRows(_)
filterRows(rows) ==
    IF rows = <<>> THEN <<>>
    ELSE IF keepRow(Head(rows)) THEN <<Head(rows)>> \o filterRows(Tail(rows))
    ELSE filterRows(Tail(rows))

handleFileUpload(files) ==
    /\ phase = "mounted"
    /\ IF files = <<>>
       THEN UNCHANGED vars
       ELSE LET file == files[1] IN
            IF rejected(file)
            THEN /\ error' = Some("Please upload a valid CSV file")
                 /\ UNCHANGED <<csvData, loading, fileName, parses, uploads, source>>
                 /\ UNCHANGED <<probeVars, viewVars>>
            ELSE /\ uploads < MaxUploads
                 /\ loading' = TRUE
                 /\ error' = None
                 /\ fileName' = file.name
                 /\ parses' = parses \cup {[seq |-> uploads + 1, name |-> file.name]}
                 /\ uploads' = uploads + 1
                 /\ UNCHANGED <<csvData, source>>
                 /\ UNCHANGED <<probeVars, viewVars>>

\* the complete callback of the parse p, called with results
completeErrorsLast(p, results) ==
    /\ p \in parses
    /\ parses' = parses \ {p}
    /\ loading' = FALSE
    /\ IF Len(results.data) = 0
       THEN /\ error' = Some("CSV file is empty")
            /\ UNCHANGED <<csvData, source>>
       ELSE IF results.errors > 0
       THEN /\ error' = Some("Error parsing CSV file")
            /\ UNCHANGED <<csvData, source>>
       ELSE /\ csvData' = Some([headers |-> results.data[1],
                                rows |-> filterRows(Tail(results.data))])
            /\ source' = Some([name |-> p.name, data |-> results.data])
            /\ UNCHANGED error
    /\ UNCHANGED <<fileName, uploads, probeVars, viewVars>>
complete(p, results) ==
    /\ p \in parses
    /\ parses' = parses \ {p}
    /\ loading' = FALSE
    /\ IF results.errors > 0
       THEN /\ error' = Some("Error parsing CSV file")
            /\ UNCHANGED <<csvData, source>>
       ELSE IF Len(results.data) = 0
       THEN /\ error' = Some("CSV file is empty")
            /\ UNCHANGED <<csvData, source>>
       ELSE /\ csvData' = Some([headers |-> results.data[1],
                                rows |-> filterRows(Tail(results.data))])
            /\ source' = Some([name |-> p.name, data |-> results.data])
            /\ UNCHANGED error
    /\ UNCHANGED <<fileName, uploads, probeVars, viewVars>>

\* the Chip with onDelete={clearData} is rendered when fileName && !loading
clearDataKeepsError ==
    /\ phase = "mounted"
    /\ fileName # <<>> /\ ~loading
    /\ csvData' = None
    /\ fileName' = <<>>
    /\ source' = None
    /\ UNCHANGED <<error, loading, parses, uploads, probeVars, viewVars>>
clearData ==
    /\ phase = "mounted"
    /\ fileName # <<>> /\ ~loading
    /\ csvData' = None
    /\ fileName' = <<>>
    /\ error' = None
    /\ source' = None
    /\ UNCHANGED <<loading, parses, uploads, probeVars, viewVars>>

\* ------------------------------------------------------------ 3-D columns
requiredColumns ==
    << <<"x">>,
       <<"y">>,
       <<"z">>,
       <<"c", "o", "m", "p", "o", "n", "e", "n", "t", "I", "d">>,
       <<"M", "a", "t", "e", "r", "i", "a", "l", "I", "d">>,
       <<"T", "r", "u", "e", "_", "T", "e", "m", "p">>,
       <<"P", "r", "e", "d", "_", "T", "e", "m", "p">>,
       <<"A", "b", "s", "_", "E", "r", "r", "o", "r">> >>

has3DColumnsExact(data) ==
    \A c \in 1..Len(requiredColumns) :
        \E h \in 1..Len(data.headers) : data.headers[h] = requiredColumns[c]
has3DColumns(data) ==
    \A c \in 1..Len(requiredColumns) :
        \E h \in 1..Len(data.headers) :
            toLowerCase(data.headers[h]) = toLowerCase(requiredColumns[c])

\* Header names a file may carry: the required names in several casings,
\* an unrelated column and two near misses.
HeaderPool ==
    << <<"x">>,
       <<"X">>,
       <<"Y">>,
       <<"Z">>,
       <<"c", "o", "m", "p", "o", "n", "e", "n", "t", "i", "d">>,
       <<"C", "O", "M", "P", "O", "N", "E", "N", "T", "I", "D">>,
       <<"m", "a", "t", "e", "r", "i", "a", "l", "i", "d">>,
       <<"t", "r", "u", "e", "_", "t", "e", "m", "p">>,
       <<"P", "r", "e", "d", "_", "T", "e", "m", "p">>,
       <<"A", "B", "S", "_", "E", "R", "R", "O", "R">>,
       <<"t", "i", "m", "e">>,
       <<"a", "b", "s", " ", "e", "r", "r", "o", "r">>,
       <<"x", "y">> >>

\* the pool names picked by S, in pool order or reversed
HeaderRow(S, reversed) ==
    LET n == Cardinality(S)
        nth(i) == CHOOSE j \in S : Cardinality({k \in S : k < j}) = i - 1
    IN [i \in 1..n |-> HeaderPool[nth(IF reversed THEN n + 1 - i ELSE i)]]

HeaderResults ==
    {[errors |-> 0, data |-> <<HeaderRow(S, reversed), << <<"1">> >> >>] :
        S \in SUBSET (1..Len(HeaderPool)), reversed \in BOOLEAN}

\* ------------------------------------------------------------ liveness probe
\* Response.ok
okAnyStatus(response) == TRUE
ok(response) == response.status >= 200 /\ response.status <= 299

\* checkTrameServer up to its await: the HEAD request is sent
checkTrameServer(origin) ==
    /\ probes' = probes + 1
    /\ issued' = IF origin \in DOMAIN issued
                 THEN [issued EXCEPT ![origin] = @ + 1]
                 ELSE issued
    /\ UNCHANGED trameServerRunning

\* checkTrameServer after its await: the fetch settled with response
settled(response) ==
    /\ probes > 0
    /\ probes' = probes - 1
    /\ trameServerRunning' =
          IF response.kind = "resolved" THEN ok(response) ELSE FALSE
    /\ UNCHANGED <<issued, ingestVars, viewVars>>

\* the effect of lines 181-185 runs once, after the first render
mount ==
    /\ phase = "rendered"
    /\ phase' = "mounted"
    /\ checkTrameServer("mount")
    /\ timer' = TRUE
    /\ nextTick' = now + Interval
    /\ UNCHANGED <<now, ingestVars>>

\* the effect's cleanup: clearInterval(interval)
unmountKeepsTimer ==
    /\ phase = "mounted"
    /\ phase' = "unmounted"
    /\ UNCHANGED <<timer, now, nextTick, ingestVars, probeVars>>
unmount ==
    /\ phase = "mounted"
    /\ phase' = "unmounted"
    /\ timer' = FALSE
    /\ UNCHANGED <<now, nextTick, ingestVars, probeVars>>

\* the interval fires
intervalTick ==
    /\ timer
    /\ now = nextTick
    /\ checkTrameServer("timer")
    /\ nextTick' = nextTick + Interval
    /\ UNCHANGED <<phase, timer, now, ingestVars>>

\* the refresh IconButton, onClick={checkTrameServer}
refreshClick ==
    /\ phase = "mounted"
    /\ probes < MaxProbes
    /\ checkTrameServer("manual")
    /\ UNCHANGED <<viewVars, ingestVars>>

\* time passes; a registered interval fires before time passes its due time
advance(d) ==
    /\ phase # "rendered"
    /\ now + d <= MaxTicks * Interval
    /\ timer => now + d <= nextTick
    /\ now' = now + d
    /\ UNCHANGED <<phase, timer, nextTick, ingestVars, probeVars>>

Durations == {Interval \div 2, Interval}

\* ------------------------------------------------------------ specification
Init ==
    /\ csvData = None
    /\ loading = FALSE
    /\ error = None
    /\ fileName = <<>>
    /\ trameServerRunning = FALSE
    /\ parses = {}
    /\ probes = 0
    /\ phase = "rendered"
    /\ timer = FALSE
    /\ now = 0
    /\ nextTick = 0
    /\ uploads = 0
    /\ issued = [o \in {"mount", "timer"} |-> 0]
    /\ source = None

Next ==
    \/ mount
    \/ unmount
    \/ intervalTick
    \/ refreshClick
    \/ \E d \in Durations : advance(d)
    \/ \E response \in Responses : settled(response)
    \/ \E files \in FileLists : handleFileUpload(files)
    \/ \E p \in parses : \E results \in SomeResults : complete(p, results)
    \/ clearData

Spec == Init /\ [][Next]_vars

\* The same, with files picked only while the upload Button is enabled
\* (disabled={loading}, line 234): no upload starts during a parse.
NextSeq ==
    \/ mount
    \/ unmount
    \/ intervalTick
    \/ refreshClick
    \/ \E d \in Durations : advance(d)
    \/ \E response \in Responses : settled(response)
    \/ \E files \in FileLists : ~loading /\ handleFileUpload(files)
    \/ \E p \in parses : \E results \in SomeResults : complete(p, results)
    \/ clearData

SpecSeq == Init /\ [][NextSeq]_vars

\* One ingestion, with every parser result of at most MaxRows rows.
NextCsv ==
    \/ mount
    \/ \E files \in FileLists : uploads = 0 /\ handleFileUpload(files)
    \/ \E p \in parses : \E results \in AllResults : complete(p, results)

SpecCsv == Init /\ [][NextCsv]_vars

\* One ingestion, with every choice of header names.
NextCols ==
    \/ mount
    \/ \E files \in FileLists : uploads = 0 /\ handleFileUpload(files)
    \/ \E p \in parses : \E results \in HeaderResults : complete(p, results)

SpecCols == Init /\ [][NextCols]_vars

\* ------------------------------------------------------------ claims
\* every cell of the row is empty or made of whitespace only
AllBlank(row) ==
    \A i \in 1..Len(row) : \A k \in 1..Len(row[i]) : row[i][k] \in WhiteSpace

\* the Table the claim C1 describes for the parser rows data
ClaimedTable(data) ==
    LET kept == {j \in 2..Len(data) : ~AllBlank(data[j])}
        nth(i) == CHOOSE j \in kept : Cardinality({k \in kept : k < j}) = i - 1
    IN [headers |-> data[1],
        rows |-> [i \in 1..Cardinality(kept) |-> data[nth(i)]]]

\* C1: a parse that completes with no errors and at least one row sets the
\* Table to the first row as headers and to the later rows, in order, minus
\* the rows whose cells are all blank; the stored rows never hold an
\* all-blank row.
C1_IngestedTable ==
    /\ [](csvData # None =>
            \A i \in 1..Len(csvData[1].rows) : ~AllBlank(csvData[1].rows[i]))
    /\ [][\A p \in parses : \A r \in AllResults :
            (r.errors = 0 /\ Len(r.data) >= 1 /\ complete(p, r))
                => csvData' = Some(ClaimedTable(r.data))]_vars

\* C1 witness: a Table whose parser rows held a blank row, with a
\* whitespace cell, ahead of a row that was kept.
C1_Witness ==
    /\ csvData # None /\ source # None
    /\ Len(csvData[1].rows) >= 1
    /\ \E j \in 2..Len(source[1].data) : \E k \in 2..Len(source[1].data) :
          /\ j < k
          /\ AllBlank(source[1].data[j])
          /\ \E c \in 1..Len(source[1].data[j]) : source[1].data[j][c] # <<>>
          /\ ~AllBlank(source[1].data[k])

\* the file is not a CSV file by the claim C2: its type is not "text/csv"
\* and its name does not end in ".csv"
ClaimNotCsv(f) ==
    LET n == Len(f.name) IN
    /\ f.type # "text/csv"
    /\ \/ n < 4
       \/ <<f.name[n - 3], f.name[n - 2], f.name[n - 1], f.name[n]>>
              # <<".", "c", "s", "v">>

\* C2: an upload of a file that is neither of type text/csv nor named *.csv
\* sets the validation error, starts no parse and leaves the Table, the file
\* name and the loading flag as they were.
C2_InvalidFileRejected ==
    [][\A f \in Files :
         (ClaimNotCsv(f) /\ handleFileUpload(<<f>>))
            => /\ error' = Some("Please upload a valid CSV file")
               /\ parses' = parses
               /\ UNCHANGED <<csvData, fileName, loading>>]_vars

\* C2 witness: the validation error next to a Table, a file name and a
\* parse that is still running.
C2_Witness ==
    /\ error = Some("Please upload a valid CSV file")
    /\ csvData # None /\ fileName # <<>> /\ loading /\ parses # {}

C4_ClearTogether ==
    [][(\/ clearData
        \/ (fileName # <<>> /\ fileName' = <<>>)
        \/ (csvData # None /\ csvData' = None))
          => /\ csvData' = None /\ fileName' = <<>> /\ error' = None
             /\ UNCHANGED <<loading, trameServerRunning>>]_vars

\* C4 witness: after an upload, everything is cleared while the server flag
\* is set.
C4_Witness ==
    /\ uploads > 0 /\ fileName = <<>> /\ csvData = None /\ error = None
    /\ trameServerRunning

\* the response has an HTTP-success status
ClaimSuccess(r) == r.kind = "resolved" /\ r.status \in 200..299

\* C5: when a probe settles, the server flag becomes true exactly when the
\* request resolved with a success status; the error, the Table, the file
\* name and the loading flag are left alone.
C5_ProbeResult ==
    [][\A r \in Responses :
         settled(r)
            => /\ trameServerRunning' = ClaimSuccess(r)
               /\ UNCHANGED <<error, csvData, fileName, loading>>]_vars

\* C5 witness: every probe issued has settled, the last one without success,
\* and no error is shown next to the Table.
C5_Witness ==
    /\ issued["mount"] = 1 /\ probes = 0 /\ ~trameServerRunning
    /\ error = None /\ csvData # None

\* C6: one probe is issued at mount; while mounted the timer is registered
\* and its k-th tick issues one probe at time k * 5000; teardown cancels the
\* timer, and no probe is issued at or after teardown.
C6_ProbeSchedule ==
    /\ [](/\ issued["mount"] = (IF phase = "rendered" THEN 0 ELSE 1)
          /\ phase = "mounted" =>
                /\ timer
                /\ nextTick = (issued["timer"] + 1) * 5000
                /\ issued["timer"] * 5000 <= now /\ now <= nextTick
          /\ phase = "unmounted" => ~timer)
    /\ [][(phase = "unmounted" \/ phase' = "unmounted") => issued' = issued]_vars

\* C6 witness: the view was torn down after a tick, and a further interval
\* has passed since.
C6_Witness ==
    /\ phase = "unmounted"
    /\ issued["timer"] >= 1
    /\ now >= (issued["timer"] + 1) * 5000

\* a and b are equal up to the case of their letters
SameLetter(c, d) ==
    c = d \/ \E k \in 1..26 : {c, d} = {UpperCase[k], LowerCase[k]}
CaseInsensitiveEqual(a, b) ==
    Len(a) = Len(b) /\ \A i \in 1..Len(a) : SameLetter(a[i], b[i])

ClaimedNames ==
    << <<"x">>,
       <<"y">>,
       <<"z">>,
       <<"c", "o", "m", "p", "o", "n", "e", "n", "t", "I", "d">>,
       <<"M", "a", "t", "e", "r", "i", "a", "l", "I", "d">>,
       <<"T", "r", "u", "e", "_", "T", "e", "m", "p">>,
       <<"P", "r", "e", "d", "_", "T", "e", "m", "p">>,
       <<"A", "b", "s", "_", "E", "r", "r", "o", "r">> >>

\* C7: has3DColumns is true exactly when each of the eight required names
\* equals some header up to case.
C7_Has3DColumns ==
    csvData # None =>
        (has3DColumns(csvData[1]) <=>
            \A c \in 1..8 : \E h \in 1..Len(csvData[1].headers) :
                CaseInsensitiveEqual(csvData[1].headers[h], ClaimedNames[c]))

\* C7 witness: a compatible Table whose headers differ in case from the
\* required names, come with other columns and are in reverse order.
C7_Witness ==
    /\ csvData # None
    /\ has3DColumns(csvData[1])
    /\ ~has3DColumnsExact(csvData[1])
    /\ Len(csvData[1].headers) > 8
    /\ csvData[1].headers[1] = HeaderPool[Len(HeaderPool)]

\* C8: the complete callback of a parse that was started before a later
\* upload changes neither the Table, nor the error, nor the loading flag.
C8_OnlyLatestIngestion ==
    [][\A p \in parses :
         (p \notin parses' /\ p.seq < uploads)
            => UNCHANGED <<csvData, error, loading>>]_vars

\* C9: at most one probe request is in flight.
C9_OneProbeInFlight == probes <= 1

\* C10: with no parse in flight and a Table present, the file name is the
\* name of the file whose parse produced the Table.
C10_FileNameOfTable ==
    (parses = {} /\ csvData # None) => fileName = source[1].name

====
